---- MODULE Spec2Model ----
(***************************************************************************)
(* Model of data_analyer_main.py: the loader/sampler check_file_type, the  *)
(* analyzer explain_file (three model requests, the first one retried),    *)
(* the reporter generate_pdf, the pipeline data_analyzer and the command   *)
(* line entry point.                                                       *)
(*                                                                         *)
(* Texts (file names, model responses, the report) are sequences whose     *)
(* elements are single characters; the fixed markup literals of the report *)
(* header are kept as one element each (none of them contains an upper     *)
(* case letter, and each is separated from its neighbours by a blank).     *)
(* Floating-point numbers are dyadic rationals m/8, held as the integer m, *)
(* so that every value of the model is an exact float64.                   *)
(***************************************************************************)
EXTENDS Integers, Sequences, FiniteSets, TLC

VARIABLES
    entry,        \* how the program was started: "cli" | "data_analyzer" | "check_file_type"
    file_name,    \* the file path argument
    file_exists,  \* os.path.exists(file_name)
    source,       \* the table stored in the input file: [complete, nan], the numbers of its rows
    fmt_fail,     \* index of the float column at which the formatting step raises (0: never)
    pc,           \* control position
    stages,       \* the functions of the pipeline entered so far, in order
    artifact,     \* file_to_analyze.csv: NoFile or [written, n, dropped, formatted]
    response_try, \* explain_file's retry counter
    response,     \* explain_file's local `response`: Unbound or the text of the last response
    log,          \* model requests issued and sleeps performed, in order
    text_md,      \* explain_file's local `text_md`, later the argument of generate_pdf
    pdf,          \* the PDF written: NoFile or [written, name, title, body]
    exception     \* the uncaught exception that ended the run: NoException or [type, in]

vars == <<entry, file_name, file_exists, source, fmt_fail, pc, stages, artifact,
          response_try, response, log, text_md, pdf, exception>>

----------------------------------------------------------------------------
(* Bounds of the model *)

\* rows with a missing value in the input table: at most this many
MaxNaNRows == 1
\* complete rows beyond the sample size in the tables the loader is checked on
MaxExtraRows == 1

----------------------------------------------------------------------------
(* Program constants *)

SampleSize == 250
ResponseTryInit == 3
SleepSeconds == 5

NoFile == [written |-> FALSE]
NoException == [type |-> "none", in |-> "none"]
Unbound == <<"<unbound>">>

CSV == <<"C", "S", "V">>

----------------------------------------------------------------------------
(* Text helpers: str.endswith, str.split("/")[0], str.replace("CSV", "") *)

EndsWith(s, suf) ==
    /\ Len(s) >= Len(suf)
    /\ SubSeq(s, Len(s) - Len(suf) + 1, Len(s)) = suf

Contains(s, sub) ==
    \E i \in 1..(Len(s) - Len(sub) + 1) : SubSeq(s, i, i + Len(sub) - 1) = sub

RECURSIVE SplitFirst(_)
SplitFirst(s) ==
    IF s = <<>> \/ Head(s) = "/" THEN <<>>
    ELSE <<Head(s)>> \o SplitFirst(Tail(s))

\* one left-to-right pass over non-overlapping occurrences, as str.replace does
RECURSIVE ReplaceCSV(_)
ReplaceCSV(s) ==
    IF Len(s) < Len(CSV) THEN s
    ELSE IF SubSeq(s, 1, Len(CSV)) = CSV THEN ReplaceCSV(SubSeq(s, Len(CSV) + 1, Len(s)))
    ELSE <<Head(s)>> \o ReplaceCSV(Tail(s))

----------------------------------------------------------------------------
(* "{:.2f}".format(x) for x = m/8 *)

Digit == <<"0", "1", "2", "3", "4", "5", "6", "7", "8", "9">>

RECURSIVE Decimal(_)
Decimal(n) ==
    IF n < 10 THEN <<Digit[n + 1]>>
    ELSE Decimal(n \div 10) \o <<Digit[(n % 10) + 1]>>

Abs(m) == IF m < 0 THEN -m ELSE m

\* |m|/8 in hundredths, rounded half to even (the value is exact, so the
\* correctly rounded decimal is the half-even one)
Hundredths(m) ==
    LET q == (Abs(m) * 100) \div 8
        r == (Abs(m) * 100) % 8
    IN  IF r > 4 \/ (r = 4 /\ q % 2 = 1) THEN q + 1 ELSE q

Format2f(m) ==
    LET h == Hundredths(m)
    IN  (IF m < 0 THEN <<"-">> ELSE <<>>)
        \o Decimal(h \div 100) \o <<".">>
        \o <<Digit[((h % 100) \div 10) + 1], Digit[(h % 10) + 1]>>

----------------------------------------------------------------------------
(* Tables.  The input file holds a table of three columns whose first      *)
(* source.nan rows have one missing value each and whose other             *)
(* source.complete rows are complete.  A DataFrame read from it is held as *)
(* [n, dropped, formatted]: the number of rows read (index labels 1..n),   *)
(* the labels of the rows it has lost since, and the columns whose values  *)
(* were replaced by their "{:.2f}" text; Index gives the labels it still   *)
(* has and Cell its cells.                                                 *)

FloatCell(m) == [k |-> "float", m |-> m]
StrCell(s) == [k |-> "str", s |-> s]
NaNCell == [k |-> "NaN"]

\* the column types pandas infers for the input table
Dtypes == <<"float64", "float64", "object">>
FloatVals == <<0, 1, 3, -5, 20, 99>>

\* the cell of the input table at row r, column c
SourceCell(r, c) ==
    IF r <= source.nan /\ c = (r % Len(Dtypes)) + 1 THEN NaNCell
    ELSE IF c = 1 THEN FloatCell(FloatVals[(r % Len(FloatVals)) + 1])
    ELSE IF c = 2 THEN FloatCell(FloatVals[((r \div Len(FloatVals)) % Len(FloatVals)) + 1])
    ELSE StrCell(<<"a">>)

Sources(completeCounts) ==
    {[complete |-> c, nan |-> n] : c \in completeCounts, n \in 0..MaxNaNRows}

PipelineSources == Sources({SampleSize - 1, SampleSize})

LoaderSources == Sources((SampleSize - 1)..(SampleSize + MaxExtraRows))

\* pd.read_csv, pd.read_parquet, pd.read_json: the table of the file
ReadTable == [n |-> source.nan + source.complete, dropped |-> {}, formatted |-> {}]

Index(df) == (1..df.n) \ df.dropped

Columns == 1..Len(Dtypes)

Cell(df, r, c) ==
    IF c \in df.formatted THEN StrCell(Format2f(SourceCell(r, c).m)) ELSE SourceCell(r, c)

IsComplete(df, r) == \A c \in Columns : Cell(df, r, c).k # "NaN"

\* df.dropna()
DropNa(df) == [df EXCEPT !.dropped = @ \cup {r \in Index(df) : ~IsComplete(df, r)}]

\* df.select_dtypes(include='float64').columns
FloatColumns(df) == {c \in Columns : Dtypes[c] = "float64" /\ c \notin df.formatted}

\* df[col] = df[col].apply(lambda x: "{:.2f}".format(x))
FormatColumn(df, col) == [df EXCEPT !.formatted = @ \cup {col}]

\* the try block: the float columns are formatted one after the other, in
\* column order; when the step raises at the failAt-th of them the columns
\* before it stay formatted and the rest are left alone
RECURSIVE FormatFrom(_, _, _, _, _)
FormatFrom(df, cols, col, nth, failAt) ==
    IF col > Len(Dtypes) THEN df
    ELSE IF col \notin cols THEN FormatFrom(df, cols, col + 1, nth, failAt)
    ELSE IF nth = failAt THEN df
    ELSE FormatFrom(FormatColumn(df, col), cols, col + 1, nth + 1, failAt)

FormatFloats(df, failAt) == FormatFrom(df, FloatColumns(df), 1, 1, failAt)

\* the subsets of S with k elements
RECURSIVE KSubsets(_, _)
KSubsets(S, k) ==
    IF k = 0 THEN {{}}
    ELSE UNION {{({x} \cup T) : T \in KSubsets({y \in S : y > x}, k - 1)} : x \in S}

\* the possible results of df.sample(n): n rows drawn without replacement
Samples(df, n) ==
    {[df EXCEPT !.dropped = @ \cup E] : E \in KSubsets(Index(df), Cardinality(Index(df)) - n)}

----------------------------------------------------------------------------
(* File names *)

ExtCsv == <<".", "c", "s", "v">>
ExtParquet == <<".", "p", "a", "r", "q", "u", "e", "t">>
ExtAvro == <<".", "a", "v", "r", "o">>
ExtJson == <<".", "j", "s", "o", "n">>

FileNames ==
    { <<"d">> \o ExtCsv,
      <<"d">> \o ExtParquet,
      <<"d">> \o ExtAvro,
      <<"d">> \o ExtJson,
      <<"d", ".", "t", "x", "t">>,
      <<"d", ".", "C", "S", "V">>,
      <<"C", "S", "V", "/", "d">> \o ExtCsv }

\* variant of Reader: any other extension is read as delimited text
ReaderDefaultCsv(name) ==
    IF EndsWith(name, ExtParquet) THEN "read_parquet"
    ELSE IF EndsWith(name, ExtAvro) THEN "read_avro"
    ELSE IF EndsWith(name, ExtJson) THEN "read_json"
    ELSE "read_csv"

\* the if/elif chain of check_file_type: the reader the file is handed to
Reader(name) ==
    IF EndsWith(name, ExtCsv) THEN "read_csv"
    ELSE IF EndsWith(name, ExtParquet) THEN "read_parquet"
    ELSE IF EndsWith(name, ExtAvro) THEN "read_avro"
    ELSE IF EndsWith(name, ExtJson) THEN "read_json"
    ELSE "unsupported"

\* the readers the pandas module has: there is no pandas.read_avro
PandasReaders == {"read_csv", "read_parquet", "read_json"}

----------------------------------------------------------------------------
(* check_file_type *)

Raise(type, fn) == [type |-> type, in |-> fn]

\* where control goes when check_file_type is over
AfterCheckFileType(exc) ==
    IF exc = NoException /\ entry = "data_analyzer" THEN "explain_file" ELSE "exit"

\* what one call of check_file_type may do: the exception it raises, if any,
\* and the content of file_to_analyze.csv afterwards
CheckFileTypeResults ==
    IF ~file_exists
    THEN {[exc |-> Raise("FileNotFoundError", "check_file_type"), art |-> artifact]}
    ELSE IF Reader(file_name) = "unsupported"
    THEN {[exc |-> Raise("ValueError", "check_file_type"), art |-> artifact]}
    ELSE IF Reader(file_name) \notin PandasReaders
    THEN {[exc |-> Raise("AttributeError", "check_file_type"), art |-> artifact]}
    ELSE LET df == FormatFloats(DropNa(ReadTable), fmt_fail)
         IN  IF Cardinality(Index(df)) < SampleSize
             THEN {[exc |-> Raise("ValueError", "check_file_type"), art |-> artifact]}
             ELSE {[exc |-> NoException,
                    art |-> [written |-> TRUE, n |-> s.n, dropped |-> s.dropped,
                             formatted |-> s.formatted]] :
                      s \in Samples(df, SampleSize)}

CheckFileType ==
    /\ pc = "check_file_type"
    /\ stages' = Append(stages, "check_file_type")
    /\ \E res \in CheckFileTypeResults :
        /\ exception' = res.exc
        /\ artifact' = res.art
        /\ pc' = AfterCheckFileType(res.exc)
    /\ UNCHANGED <<entry, file_name, file_exists, source, fmt_fail,
                   response_try, response, log, text_md, pdf>>

----------------------------------------------------------------------------
(* explain_file *)

ResponseTexts ==
    { <<"o", "k">>,
      <<"A", " ", "C", "S", "V", "f">>,
      <<"C", "C", "S", "V", "S", "V">> }

\* a model request: which one, whether generate_content returned, and the text
\* of the response (empty when it raised)
Request(n, ok, text) == [ev |-> "request", n |-> n, ok |-> ok, text |-> text]
Sleep(secs) == [ev |-> "sleep", secs |-> secs]

\* module level: now.strftime("%Y-%m-%d - %H:%M:%S"), taken once at start
ActualDate == <<"2024-05-01 - 10:00:00">>

\* the header block of the report
Header(name) ==
    <<"<div style=\"text-align: right\"> ">> \o ActualDate \o <<" </div><br>">>
    \o <<"<div style=\"font-style: italic\"> ">> \o SplitFirst(name) \o <<" </div>\n\n">>
    \o <<"__________">> \o <<"\n\n">>

\* text_md = text_md + " " + response.text.replace("CSV", "")
FirstSection(head, text) == head \o <<" ">> \o ReplaceCSV(text)

\* variant of AddSection: the new section put in front of the text so far
AddSectionFirst(md, text) == ReplaceCSV(text) \o <<"\n">> \o md

\* text_md = text_md + "\n" + response.text.replace("CSV", "")
AddSection(md, text) == md \o <<"\n">> \o ReplaceCSV(text)

\* the loop condition of the retry loop
LoopAgain(tries) == tries # 0

\* variant of Exhausted: the last try counted as used up before it is made
ExhaustedOffByOne(tries) == tries <= 1

\* variant of Exhausted: the test never fires
ExhaustedNever(tries) == tries < 0

\* the test after the loop
Exhausted(tries) == tries = 0

\* variant of AfterRequest2: a failed second request ends the analysis
AfterRequest2Abort(ok) == IF ok THEN "request3" ELSE "generate_pdf"

\* where control goes after the second request's try/except: on to the third
\* request, whether the second returned or raised
AfterRequest2(ok) == "request3"

\* configure, read file_to_analyze.csv, build the model, response_try = 3
ExplainFile ==
    /\ pc = "explain_file"
    /\ stages' = Append(stages, "explain_file")
    /\ IF artifact = NoFile
       THEN /\ exception' = Raise("FileNotFoundError", "explain_file")
            /\ pc' = "exit"
            /\ UNCHANGED response_try
       ELSE /\ response_try' = ResponseTryInit
            /\ pc' = "request1"
            /\ UNCHANGED exception
    /\ UNCHANGED <<entry, file_name, file_exists, source, fmt_fail, artifact,
                   response, log, text_md, pdf>>

\* one pass of the loop body in which generate_content returns: break
Request1Ok ==
    /\ pc = "request1"
    /\ LoopAgain(response_try)
    /\ \E t \in ResponseTexts :
        /\ response' = t
        /\ log' = Append(log, Request(1, TRUE, t))
    /\ pc' = "after_loop"
    /\ UNCHANGED <<entry, file_name, file_exists, source, fmt_fail, stages, artifact,
                   response_try, text_md, pdf, exception>>

\* one pass of the loop body in which generate_content raises: the except
\* block counts down, prints and sleeps, then the loop condition is tested
Request1Fails ==
    /\ pc = "request1"
    /\ LoopAgain(response_try)
    /\ response_try' = response_try - 1
    /\ log' = log \o <<Request(1, FALSE, <<>>), Sleep(SleepSeconds)>>
    /\ pc' = IF LoopAgain(response_try') THEN "request1" ELSE "after_loop"
    /\ UNCHANGED <<entry, file_name, file_exists, source, fmt_fail, stages, artifact,
                   response, text_md, pdf, exception>>

\* after the loop: raise when the tries are used up, else the header and the
\* first section
FirstSectionOrRaise ==
    /\ pc = "after_loop"
    /\ IF Exhausted(response_try)
       THEN /\ exception' = Raise("Exception", "explain_file")
            /\ pc' = "exit"
            /\ UNCHANGED text_md
       ELSE /\ text_md' = FirstSection(Header(file_name), response)
            /\ pc' = "request2"
            /\ UNCHANGED exception
    /\ UNCHANGED <<entry, file_name, file_exists, source, fmt_fail, stages, artifact,
                   response_try, response, log, pdf>>

Request2Ok ==
    /\ pc = "request2"
    /\ \E t \in ResponseTexts :
        /\ response' = t
        /\ text_md' = AddSection(text_md, t)
        /\ log' = Append(log, Request(2, TRUE, t))
    /\ pc' = AfterRequest2(TRUE)
    /\ UNCHANGED <<entry, file_name, file_exists, source, fmt_fail, stages, artifact,
                   response_try, pdf, exception>>

Request2Fails ==
    /\ pc = "request2"
    /\ log' = Append(log, Request(2, FALSE, <<>>))
    /\ pc' = AfterRequest2(FALSE)
    /\ UNCHANGED <<entry, file_name, file_exists, source, fmt_fail, stages, artifact,
                   response_try, response, text_md, pdf, exception>>

\* the last request; explain_file returns text_md afterwards
Request3Ok ==
    /\ pc = "request3"
    /\ \E t \in ResponseTexts :
        /\ response' = t
        /\ text_md' = AddSection(text_md, t)
        /\ log' = Append(log, Request(3, TRUE, t))
    /\ pc' = "generate_pdf"
    /\ UNCHANGED <<entry, file_name, file_exists, source, fmt_fail, stages, artifact,
                   response_try, pdf, exception>>

Request3Fails ==
    /\ pc = "request3"
    /\ log' = Append(log, Request(3, FALSE, <<>>))
    /\ pc' = "generate_pdf"
    /\ UNCHANGED <<entry, file_name, file_exists, source, fmt_fail, stages, artifact,
                   response_try, response, text_md, pdf, exception>>

----------------------------------------------------------------------------
(* generate_pdf, data_analyzer, __main__ *)

Uuids == {<<"uuid-1">>, <<"uuid-2">>}

\* the PDF generate_pdf saves, then data_analyzer's last prints
GeneratePdf ==
    /\ pc = "generate_pdf"
    /\ stages' = Append(stages, "generate_pdf")
    /\ \E id4 \in Uuids :
        pdf' = [written |-> TRUE,
                name |-> <<"data-analysis-">> \o id4 \o <<".pdf">>,
                title |-> <<"Analysis of ">> \o file_name,
                body |-> text_md]
    /\ pc' = "exit"
    /\ UNCHANGED <<entry, file_name, file_exists, source, fmt_fail, artifact,
                   response_try, response, log, text_md, exception>>

\* data_analyzer is called (by a caller that imported the module, or by main)
DataAnalyzer ==
    /\ pc = "data_analyzer"
    /\ stages' = Append(stages, "data_analyzer")
    /\ pc' = "check_file_type"
    /\ UNCHANGED <<entry, file_name, file_exists, source, fmt_fail, artifact,
                   response_try, response, log, text_md, pdf, exception>>

\* the attributes of the namespace parse_args returns: the two flags' dests
ArgsNamespace == {"file_name", "api_key"}

\* the attributes main reads from it to call data_analyzer
ArgsRead == {"file_name", "google_api_key"}

\* the `if __name__ == "__main__"` block, both flags given
Main ==
    /\ pc = "main"
    /\ IF ArgsRead \subseteq ArgsNamespace
       THEN pc' = "data_analyzer" /\ UNCHANGED exception
       ELSE pc' = "exit" /\ exception' = Raise("AttributeError", "main")
    /\ UNCHANGED <<entry, file_name, file_exists, source, fmt_fail, stages, artifact,
                   response_try, response, log, text_md, pdf>>

\* the process's exit status: an uncaught exception ends it with status 1
ExitStatus == IF exception = NoException THEN 0 ELSE 1

----------------------------------------------------------------------------
(* Specifications *)

InitCommon ==
    /\ file_name \in FileNames
    /\ file_exists \in BOOLEAN
    /\ fmt_fail \in 0..Cardinality({c \in Columns : Dtypes[c] = "float64"})
    /\ stages = <<>>
    /\ artifact = NoFile
    /\ response_try = 0
    /\ response = Unbound
    /\ log = <<>>
    /\ text_md = <<>>
    /\ pdf = NoFile
    /\ exception = NoException

\* the program run from the command line, or data_analyzer called directly
Init ==
    /\ InitCommon
    /\ entry \in {"cli", "data_analyzer"}
    /\ pc = IF entry = "cli" THEN "main" ELSE "data_analyzer"
    /\ source \in PipelineSources

Next ==
    \/ Main
    \/ DataAnalyzer
    \/ CheckFileType
    \/ ExplainFile
    \/ Request1Ok
    \/ Request1Fails
    \/ FirstSectionOrRaise
    \/ Request2Ok
    \/ Request2Fails
    \/ Request3Ok
    \/ Request3Fails
    \/ GeneratePdf

Spec == Init /\ [][Next]_vars

\* check_file_type called on its own, on tables with rows to spare
InitLoader ==
    /\ InitCommon
    /\ entry = "check_file_type"
    /\ pc = "check_file_type"
    /\ source \in LoaderSources

NextLoader == CheckFileType

SpecLoader == InitLoader /\ [][NextLoader]_vars

----------------------------------------------------------------------------
(* What the log and the files say *)

IsRequest(e, n) == e.ev = "request" /\ e.n = n

Attempts(n) == Len(SelectSeq(log, LAMBDA e : IsRequest(e, n)))

Failures(n) == Len(SelectSeq(log, LAMBDA e : IsRequest(e, n) /\ ~e.ok))

Succeeded(n) == \E i \in DOMAIN log : IsRequest(log[i], n) /\ log[i].ok

\* the text request n returned
TextOf(n) == log[CHOOSE i \in DOMAIN log : IsRequest(log[i], n) /\ log[i].ok].text

Waits == SelectSeq(log, LAMBDA e : e.ev = "sleep")

Fatal == Raise("Exception", "explain_file")

\* explain_file is past its retry loop and the test that follows it
PastFirstRequest == pc \in {"request2", "request3", "generate_pdf", "exit"} /\ Attempts(1) > 0

\* the extensions the loader is documented to support
SupportedExtension(name) ==
    \E ext \in {ExtCsv, ExtParquet, ExtAvro, ExtJson} : EndsWith(name, ext)

\* the complete rows of the input table
CompleteRows == Index(DropNa(ReadTable))

----------------------------------------------------------------------------
(* Claims *)

\* C1: the mandatory first request is attempted at most 3 times, an attempt
\* after the first is made only when every earlier attempt failed, and the
\* operation fails fatally exactly when all 3 attempts failed: a success on
\* the 1st, 2nd or 3rd attempt is accepted and the report is begun.
C1_RetryAtMostThree ==
    /\ Attempts(1) <= 3
    /\ \A i, j \in DOMAIN log :
        (i < j /\ IsRequest(log[i], 1) /\ IsRequest(log[j], 1)) => ~log[i].ok
    /\ PastFirstRequest =>
        /\ (exception = Fatal) <=> (Failures(1) = 3)
        /\ Succeeded(1) =>
            /\ exception = NoException
            /\ SubSeq(text_md, 1, Len(Header(file_name))) = Header(file_name)

C1_Witness ==
    /\ pc = "request2"
    /\ Attempts(1) = 3
    /\ Succeeded(1)
    /\ exception = NoException

\* C2: when the mandatory request fails on all 3 attempts the pipeline
\* aborts: generate_pdf is never called, no PDF is written and neither
\* optional request is issued.
C2_FatalAborts ==
    Failures(1) = 3 =>
        /\ pdf = NoFile
        /\ \A i \in DOMAIN stages : stages[i] # "generate_pdf"
        /\ Attempts(2) = 0
        /\ Attempts(3) = 0
        /\ pc \in {"after_loop", "exit"}
        /\ pc = "exit" => exception = Fatal

C2_Witness ==
    /\ Failures(1) = 3
    /\ pc = "exit"
    /\ exception = Fatal
    /\ pdf = NoFile

\* C3: when the mandatory request succeeds, whatever the outcomes of
\* requests 2 and 3, the run completes without an exception and the PDF's
\* body is the header, then request 1's text, then request 2's text exactly
\* when request 2 succeeded, then request 3's text exactly when request 3
\* succeeded ("CSV" removed from each text).
C3_ReportSections ==
    (pc = "exit" /\ Succeeded(1)) =>
        /\ exception = NoException
        /\ pdf.written
        /\ pdf.body =
                Header(file_name) \o <<" ">> \o ReplaceCSV(TextOf(1))
                \o (IF Succeeded(2) THEN <<"\n">> \o ReplaceCSV(TextOf(2)) ELSE <<>>)
                \o (IF Succeeded(3) THEN <<"\n">> \o ReplaceCSV(TextOf(3)) ELSE <<>>)

C3_Witness ==
    /\ pc = "exit"
    /\ Succeeded(1)
    /\ Attempts(2) = 1 /\ ~Succeeded(2)
    /\ Attempts(3) = 1 /\ ~Succeeded(3)
    /\ pdf.written
    /\ pdf.body = Header(file_name) \o <<" ">> \o ReplaceCSV(TextOf(1))

\* C4: started from the command line with both flags, the program hands
\* the file path and the credential to the pipeline; with an existing file
\* of a supported extension, at least 250 complete rows and no failing
\* model request, it runs the loader, the analyzer and the reporter in that
\* order and ends with status 0; a non-zero status comes only from an
\* uncaught failure of one of those stages.
C4_CommandLineRun ==
    (entry = "cli" /\ pc = "exit") =>
        /\ Len(stages) > 0 /\ stages[1] = "data_analyzer"
        /\ (/\ file_exists
            /\ SupportedExtension(file_name)
            /\ Cardinality(CompleteRows) >= 250
            /\ \A n \in 1..3 : Failures(n) = 0)
           => /\ ExitStatus = 0
              /\ stages = <<"data_analyzer", "check_file_type", "explain_file", "generate_pdf">>
        /\ ExitStatus # 0 =>
              exception.in \in {"check_file_type", "explain_file", "generate_pdf"}

\* C5: the report text explain_file returns and the PDF renderer receives
\* contains no occurrence of "CSV", whatever the responses and the file name.
C5_NoCSVInReport ==
    /\ pc = "generate_pdf" => ~Contains(text_md, CSV)
    /\ pdf # NoFile => ~Contains(pdf.body, CSV)

\* C6: a file path with an unsupported extension makes the run fail before
\* any network call: no model request is issued, the intermediate file is
\* not written, no PDF is produced, and a run of the pipeline ends in
\* check_file_type with an exception.
C6_UnsupportedFailsEarly ==
    ~SupportedExtension(file_name) =>
        /\ \A i \in DOMAIN log : log[i].ev # "request"
        /\ artifact = NoFile
        /\ pdf = NoFile
        /\ \A i \in DOMAIN stages : stages[i] \in {"data_analyzer", "check_file_type"}
        /\ pc \in {"main", "data_analyzer", "check_file_type", "exit"}
        /\ pc = "exit" => exception # NoException
        /\ (pc = "exit" /\ Len(stages) > 0) => exception.in = "check_file_type"

C6_Witness ==
    /\ ~SupportedExtension(file_name)
    /\ file_exists
    /\ entry = "data_analyzer"
    /\ pc = "exit"
    /\ exception = Raise("ValueError", "check_file_type")

\* C7: every wait is 5 seconds, and a run that makes k attempts of request
\* 1 performs exactly k-1 waits: none after a successful attempt, none after
\* the last failed attempt before the fatal failure is raised.
C7_WaitsBetweenAttempts ==
    /\ \A i \in DOMAIN Waits : Waits[i].secs = 5
    /\ (pc \in {"after_loop", "request2", "request3", "generate_pdf", "exit"}
        /\ Attempts(1) > 0)
       => Len(Waits) = Attempts(1) - 1

\* C8: when the mandatory request succeeds, requests 2 and 3 are each
\* attempted exactly once: request 2 only after request 1 succeeded, request
\* 3 only after request 2 returned or failed, and whether it did either.
C8_OptionalOnce ==
    /\ Attempts(2) <= 1
    /\ Attempts(3) <= 1
    /\ \A j \in DOMAIN log :
        /\ IsRequest(log[j], 2) =>
              \E i \in 1..(j - 1) : IsRequest(log[i], 1) /\ log[i].ok
        /\ IsRequest(log[j], 3) =>
              \E i \in 1..(j - 1) : IsRequest(log[i], 2)
    /\ (Succeeded(1) /\ pc \in {"request3", "generate_pdf", "exit"}) => Attempts(2) = 1
    /\ (Succeeded(1) /\ pc \in {"generate_pdf", "exit"}) => Attempts(3) = 1

C8_Witness ==
    /\ pc = "exit"
    /\ Succeeded(1)
    /\ Attempts(2) = 1 /\ ~Succeeded(2)
    /\ Attempts(3) = 1 /\ Succeeded(3)

\* a fixed two-decimal numeral: an optional sign, digits, a point, two digits
IsDigit(c) == \E d \in DOMAIN Digit : Digit[d] = c

IsTwoDecimal(s) ==
    LET t == IF Len(s) > 0 /\ s[1] = "-" THEN Tail(s) ELSE s
    IN  /\ Len(t) >= 4
        /\ t[Len(t) - 2] = "."
        /\ \A i \in DOMAIN t : i # Len(t) - 2 => IsDigit(t[i])

\* check_file_type was given an existing file of a supported extension with
\* at least 250 complete rows, and is over
LoaderDone ==
    /\ pc = "exit"
    /\ entry = "check_file_type"
    /\ file_exists
    /\ SupportedExtension(file_name)
    /\ Cardinality(CompleteRows) >= 250

\* C9: for every supported format and every table with at least 250 complete
\* rows, check_file_type finishes and the intermediate file has exactly 250
\* rows, each a distinct complete row of the input, with no missing value.
C9_SampleOf250 ==
    LoaderDone =>
        /\ exception = NoException
        /\ artifact.written
        /\ Cardinality(Index(artifact)) = 250
        /\ Index(artifact) \subseteq CompleteRows
        /\ \A r \in Index(artifact) : IsComplete(artifact, r)

\* C10: every floating-point cell of the intermediate file is a two-decimal
\* numeral when the formatting step succeeds; when it fails at any point the
\* failure is not fatal, the file is still sampled and written, and the
\* values of all floating-point columns are the original ones.
C10_FormatOrPassThrough ==
    (LoaderDone /\ Reader(file_name) \in PandasReaders) =>
        /\ exception = NoException
        /\ artifact.written
        /\ \A r \in Index(artifact) : \A c \in FloatColumns(ReadTable) :
            IF fmt_fail = 0
            THEN /\ Cell(artifact, r, c).k = "str"
                 /\ IsTwoDecimal(Cell(artifact, r, c).s)
            ELSE Cell(artifact, r, c) = SourceCell(r, c)

====
